---- MODULE Spec2Model ----
(***************************************************************************)
(* Phase closure check of PyRate (pyrate/core/phase_closure/               *)
(* closure_check.py): the stability iteration of                           *)
(* filter_to_closure_checked_ifgs over wrap_closure_check, the loop count  *)
(* pruner, the two measurement pruning rules and the pixel unwrap-error    *)
(* detector.                                                               *)
(*                                                                         *)
(* An interferogram file is identified with its date pair (its Edge); the  *)
(* file names carry the two dates, so sorting the file list is sorting the *)
(* date pairs.  The loop finder/sorter (mst_closure) and the closure sum   *)
(* (sum_closure) are imported by closure_check.py and are not part of the  *)
(* sources at hand: they are modelled from the written specification.      *)
(***************************************************************************)
EXTENDS Integers, Sequences, FiniteSets, TLC

(***************************************************************************)
(* Bounds of the model.                                                    *)
(***************************************************************************)
\* acquisition dates: the complete graph on 4 dates has 4 triangles and 3
\* four-edge loops, which share edges
Dates == 1 .. 4
\* the raster has one row and NumCols columns
Rows == {1}
NumCols == 2
\* at most MaxErrs (measurement, pixel) cells carry an unwrapping error
MaxErrs == 1
\* largest loop occurrence count drawn for the array-level specification
MaxOcc == 2

Cols == 1 .. NumCols
Pixels == Rows \X Cols
nrows == Cardinality(Rows)
ncols == Cardinality(Cols)

(***************************************************************************)
(* Configuration values (params[cf.*]).  AVG_IFG_ERR_THR is a rational     *)
(* <<numerator, denominator>>.                                             *)
(***************************************************************************)
MaxLoopLengthVals == {3, 4}
MaxLoopsInIfgVals == {0, 1, 2}
LoopsThrIfgVals == {0, 1}
AvgIfgErrThrVals == {<<7, 100>>, <<1, 4>>}
LargeDevThrVals == {0}
PhsUnwErrThrVals == {1, 2}

Params ==
    [MAX_LOOP_LENGTH : MaxLoopLengthVals,
     MAX_LOOPS_IN_IFG : MaxLoopsInIfgVals,
     LOOPS_THR_IFG : LoopsThrIfgVals,
     AVG_IFG_ERR_THR : AvgIfgErrThrVals,
     LARGE_DEV_THR : LargeDevThrVals,
     PHS_UNW_ERR_THR : PhsUnwErrThrVals]

(***************************************************************************)
(* Edge model.                                                             *)
(***************************************************************************)
\* Edge(first, second): direction-independent key of a measurement
Edge(a, b) == IF a < b THEN <<a, b>> ELSE <<b, a>>

AllEdges == {e \in Dates \X Dates : e[1] < e[2]}

Range(s) == {s[i] : i \in 1 .. Len(s)}

\* order of the file names: by first date, then by second date
FileLess(e, f) == e[1] < f[1] \/ (e[1] = f[1] /\ e[2] < f[2])

RECURSIVE SortedSeq(_)
\* the elements of a finite set of files in ascending file-name order
SortedSeq(S) ==
    IF S = {} THEN <<>>
    ELSE LET m == CHOOSE x \in S : \A y \in S \ {x} : FileLess(x, y)
         IN <<m>> \o SortedSeq(S \ {m})

\* list.sort() of a list of (distinct) file names
SortFiles(files) == SortedSeq(Range(files))

RECURSIVE ReversedSeq(_)
ReversedSeq(s) == IF s = <<>> THEN <<>> ELSE ReversedSeq(Tail(s)) \o <<Head(s)>>

RECURSIVE SumSeq(_)
SumSeq(s) == IF s = <<>> THEN 0 ELSE Head(s) + SumSeq(Tail(s))

Abs(x) == IF x < 0 THEN -x ELSE x

(***************************************************************************)
(* Loop Finder and Loop Weigher/Sorter (mst_closure).                      *)
(***************************************************************************)
\* a SignedEdge: the edge and the direction in which the loop traverses it
SignedEdge(u, v) == [edge |-> Edge(u, v), sign |-> IF u < v THEN 1 ELSE -1]

\* node sequences of the simple cycles of the graph, one per cycle: they
\* start at the cycle's earliest date and run in one fixed direction
CycleNodes(edges) ==
    UNION {{n \in [1 .. k -> Dates] :
              /\ \A i, j \in 1 .. k : i # j => n[i] # n[j]
              /\ \A i \in 2 .. k : n[1] < n[i]
              /\ n[2] < n[k]
              /\ \A i \in 1 .. k : Edge(n[i], n[(i % k) + 1]) \in edges}
           : k \in 3 .. Cardinality(Dates)}

\* the WeightedLoop of a cycle: its signed edges and the sum of their spans
WeightedLoop(n) ==
    LET k == Len(n)
        loop == [i \in 1 .. k |-> SignedEdge(n[i], n[(i % k) + 1])]
    IN [loop |-> loop,
        weight |-> SumSeq([i \in 1 .. k |-> loop[i].edge[2] - loop[i].edge[1]])]

\* loop.edges: the distinct edges of a loop, without their signs
LoopEdges(wl) == {wl.loop[i].edge : i \in 1 .. Len(wl.loop)}

\* len(loop)
LoopLen(wl) == Len(wl.loop)

RECURSIVE LexLess(_, _)
\* lexicographic order of two lists of date pairs
LexLess(s, t) ==
    IF t = <<>> THEN FALSE
    ELSE IF s = <<>> THEN TRUE
    ELSE IF Head(s) = Head(t) THEN LexLess(Tail(s), Tail(t))
    ELSE FileLess(Head(s), Head(t))

\* total order of the sorter: weight, then edge count, then dates
LoopLess(a, b) ==
    \/ a.weight < b.weight
    \/ a.weight = b.weight /\ LoopLen(a) < LoopLen(b)
    \/ a.weight = b.weight /\ LoopLen(a) = LoopLen(b)
       /\ LexLess(SortedSeq(LoopEdges(a)), SortedSeq(LoopEdges(b)))

\* the loops of a finite set in the order of the sorter: a loop comes after
\* as many loops as are less than it
SortedLoops(S) ==
    [i \in 1 .. Cardinality(S) |->
        CHOOSE x \in S : Cardinality({y \in S : LoopLess(y, x)}) = i - 1]

\* sort_loops_based_on_weights_and_date(ifg_files)
sort_loops_based_on_weights_and_date(files) ==
    SortedLoops({WeightedLoop(n) : n \in CycleNodes(Range(files))})

(***************************************************************************)
(* Loop Count Pruner (discard_loops_containing_max_ifg_count).             *)
(***************************************************************************)
\* mutant: the counters are compared with >= in place of >
AllEdgesAtMax(loop, ifg_counter, params) ==
    \A e \in LoopEdges(loop) : ifg_counter[e] >= params.MAX_LOOPS_IN_IFG

\* np.all(edge_appearances > params[cf.MAX_LOOPS_IN_IFG])
AllEdgesOverMax(loop, ifg_counter, params) ==
    \A e \in LoopEdges(loop) : ifg_counter[e] > params.MAX_LOOPS_IN_IFG

\* mutant: the counter of an edge that is over the cap is left alone
CountLoopUnderCap(loop, ifg_counter) ==
    [e \in AllEdges |-> IF e \in LoopEdges(loop) /\ ifg_counter[e] < 1
                        THEN ifg_counter[e] + 1
                        ELSE ifg_counter[e]]

\* for e in loop.edges: ifg_counter[e] += 1
CountLoop(loop, ifg_counter) ==
    [e \in AllEdges |-> IF e \in LoopEdges(loop) THEN ifg_counter[e] + 1
                        ELSE ifg_counter[e]]

RECURSIVE WalkLoops(_, _, _, _)
\* the walk over the loop list, from the selected loops and counters so far
WalkLoops(loops, selected_loops, ifg_counter, params) ==
    IF loops = <<>>
    THEN [selected_loops |-> selected_loops, ifg_counter |-> ifg_counter]
    ELSE LET loop == Head(loops)
         IN IF ~AllEdgesOverMax(loop, ifg_counter, params)
            THEN WalkLoops(Tail(loops), Append(selected_loops, loop),
                           CountLoop(loop, ifg_counter), params)
            ELSE WalkLoops(Tail(loops), selected_loops, ifg_counter, params)

\* ifg_counter = defaultdict(int)
ZeroCounter == [e \in AllEdges |-> 0]

discard_loops_containing_max_ifg_count(loops, params) ==
    WalkLoops(loops, <<>>, ZeroCounter, params).selected_loops

(***************************************************************************)
(* Measurement Pruner, rule 1 (__drop_ifgs_if_not_part_of_any_loop).       *)
(***************************************************************************)
\* mutant: loop_ifgs holds the edges of the last loop only
LoopIfgsLastLoop(loops) ==
    IF loops = <<>> THEN {}
    ELSE {loops[Len(loops)].loop[i].edge : i \in 1 .. Len(loops[Len(loops)].loop)}

\* loop_ifgs: the edges of all the loops
LoopIfgs(loops) ==
    UNION {{Edge(loops[l].loop[i].edge[1], loops[l].loop[i].edge[2])
              : i \in 1 .. Len(loops[l].loop)} : l \in 1 .. Len(loops)}

drop_ifgs_if_not_part_of_any_loop(ifg_files, loops) ==
    SelectSeq(ifg_files, LAMBDA f : Edge(f[1], f[2]) \in LoopIfgs(loops))

(***************************************************************************)
(* Closure Sum Engine (sum_closure.sum_phase_closures).  The arrays are    *)
(* indexed by pixel and by the position of a file in the sorted file list. *)
(* The optional subtraction of the per-loop median is not modelled (off).  *)
(***************************************************************************)
\* signed sum of the phase around a loop at one pixel
LoopClosure(wl, px, phase) ==
    SumSeq([i \in 1 .. Len(wl.loop) |-> wl.loop[i].sign * phase[wl.loop[i].edge][px]])

\* |closure| > LARGE_DEV_THR
LoopBreaches(wl, px, phase, params) ==
    Abs(LoopClosure(wl, px, phase)) > params.LARGE_DEV_THR

sum_phase_closures(ifg_files, loops, params, phase) ==
    LET files == SortFiles(ifg_files)
        With(i) == {l \in 1 .. Len(loops) : files[i] \in LoopEdges(loops[l])}
    IN [closure |->
            [px \in Pixels |-> [l \in 1 .. Len(loops) |-> LoopClosure(loops[l], px, phase)]],
        ifgs_breach_count |->
            [px \in Pixels |-> [i \in 1 .. Len(files) |->
                Cardinality({l \in With(i) : LoopBreaches(loops[l], px, phase, params)})]],
        num_occurences_each_ifg |->
            [i \in 1 .. Len(files) |-> Cardinality(With(i))]]

(***************************************************************************)
(* Measurement Pruner, rule 2 (__drop_ifgs_exceeding_threshold).           *)
(***************************************************************************)
RECURSIVE SumOver(_, _)
SumOver(f, S) ==
    IF S = {} THEN 0
    ELSE LET x == CHOOSE y \in S : TRUE IN f[x] + SumOver(f, S \ {x})

\* np.sum(ifgs_breach_count[:, :, i])
BreachSum(ifgs_breach_count, i) ==
    SumOver([px \in Pixels |-> ifgs_breach_count[px][i]], Pixels)

\* mutant: the threshold is read as a percentage of itself
ifg_remove_threshold_breached_percent(ifgs_breach_count, num_occurences_each_ifg, i, params) ==
    BreachSum(ifgs_breach_count, i) * params.AVG_IFG_ERR_THR[2]
        > params.AVG_IFG_ERR_THR[1] * 100 * num_occurences_each_ifg[i] * nrows * ncols

\* np.sum(...) / loop_count_of_this_ifg / nrows / ncols > params[cf.AVG_IFG_ERR_THR],
\* for a loop count above zero, in exact arithmetic
ifg_remove_threshold_breached(ifgs_breach_count, num_occurences_each_ifg, i, params) ==
    BreachSum(ifgs_breach_count, i) * params.AVG_IFG_ERR_THR[2]
        > params.AVG_IFG_ERR_THR[1] * num_occurences_each_ifg[i] * nrows * ncols

\* mutant: the file is appended under "if loop_count_of_this_ifg" already
IfgSelectedLoopCountOnly(ifgs_breach_count, num_occurences_each_ifg, i, params) ==
    num_occurences_each_ifg[i] # 0

\* mutant: either threshold alone drops the file
IfgSelectedOr(ifgs_breach_count, num_occurences_each_ifg, i, params) ==
    /\ num_occurences_each_ifg[i] # 0
    /\ ~(\/ num_occurences_each_ifg[i] > params.LOOPS_THR_IFG
         \/ ifg_remove_threshold_breached(ifgs_breach_count, num_occurences_each_ifg, i, params))

\* whether the i-th file is appended to selected_ifg_files
IfgSelected(ifgs_breach_count, num_occurences_each_ifg, i, params) ==
    /\ num_occurences_each_ifg[i] # 0
    /\ ~(/\ num_occurences_each_ifg[i] > params.LOOPS_THR_IFG
         /\ ifg_remove_threshold_breached(ifgs_breach_count, num_occurences_each_ifg, i, params))

RECURSIVE SelectFrom(_, _, _, _, _)
\* for i, ifg_file in enumerate(orig_ifg_files), from position i on
SelectFrom(files, i, ifgs_breach_count, num_occurences_each_ifg, params) ==
    IF i > Len(files) THEN <<>>
    ELSE (IF IfgSelected(ifgs_breach_count, num_occurences_each_ifg, i, params)
          THEN <<files[i]>> ELSE <<>>)
         \o SelectFrom(files, i + 1, ifgs_breach_count, num_occurences_each_ifg, params)

drop_ifgs_exceeding_threshold(orig_ifg_files, ifgs_breach_count, num_occurences_each_ifg, params) ==
    SelectFrom(SortFiles(orig_ifg_files), 1, ifgs_breach_count, num_occurences_each_ifg, params)

(***************************************************************************)
(* Pixel Unwrap-Error Detector (detect_pix_with_unwrapping_errors).        *)
(***************************************************************************)
\* n_ifgs of ifgs_breach_count.shape
NIfgs(ifgs_breach_count) == Len(ifgs_breach_count[CHOOSE px \in Pixels : TRUE])

\* number of ifgs whose breach count at the pixel equals their loop count
pix_unwrap_error(ifgs_breach_count, num_occurrences_each_ifg) ==
    [px \in Pixels |->
        Cardinality({i \in 1 .. NIfgs(ifgs_breach_count) :
                        ifgs_breach_count[px][i] = num_occurrences_each_ifg[i]})]

\* mutant: the threshold has to be exceeded
nan_index_strict(ifgs_breach_count, num_occurrences_each_ifg, params) ==
    {px \in Pixels :
        pix_unwrap_error(ifgs_breach_count, num_occurrences_each_ifg)[px]
            > params.PHS_UNW_ERR_THR}

\* nan_index = pix_unwrap_error >= params[cf.PHS_UNW_ERR_THR]
nan_index(ifgs_breach_count, num_occurrences_each_ifg, params) ==
    {px \in Pixels :
        pix_unwrap_error(ifgs_breach_count, num_occurrences_each_ifg)[px]
            >= params.PHS_UNW_ERR_THR}

(***************************************************************************)
(* State.                                                                  *)
(***************************************************************************)
VARIABLES
    params,                 \* config.__dict__
    interferogram_files,    \* params[cf.INTERFEROGRAM_FILES]
    phase,                  \* raster store: phase[edge][pixel]
    nan_pixels,             \* raster store: pixels set to nan, per edge
    pc,                     \* position in filter_to_closure_checked_ifgs / wrap_closure_check
    ifg_files,              \* the measurement list of filter_to_closure_checked_ifgs
    sorted_signed_loops,
    retained_loops_meeting_max_loop_criretia,
    retained_loops,
    ifgs_with_loops,
    closure,
    ifgs_breach_count,
    num_occurences_each_ifg,
    selected_ifg_files,
    rets,                   \* what wrap_closure_check returned
    new_ifg_files,
    saved,                  \* the arrays written by np.save
    plotted,                \* number of plot_closure calls
    pix_unwrap,             \* what detect_pix_with_unwrapping_errors returned
    result,                 \* what filter_to_closure_checked_ifgs returned
    iteration,              \* number of wrap_closure_check calls so far
    ran,                    \* stages run by the current wrap_closure_check call
    comm,                   \* mpiops.comm: broadcasts in flight, reduction parts, barrier
    log                     \* the records written with log.info

vars ==
    <<params, interferogram_files, phase, nan_pixels, pc, ifg_files,
      sorted_signed_loops, retained_loops_meeting_max_loop_criretia, retained_loops,
      ifgs_with_loops, closure, ifgs_breach_count, num_occurences_each_ifg,
      selected_ifg_files, rets, new_ifg_files, saved, plotted, pix_unwrap, result,
      iteration, ran, comm, log>>

inputs == <<params, interferogram_files, phase>>

wrap_locals ==
    <<sorted_signed_loops, retained_loops_meeting_max_loop_criretia, retained_loops,
      ifgs_with_loops, closure, ifgs_breach_count, num_occurences_each_ifg,
      selected_ifg_files>>

\* Python's None, and the value of a name that is not bound yet
None == [none |-> TRUE]
Unbound == [unbound |-> TRUE]

\* mpiops.comm of a run without MPI: there is nothing to communicate
SingleProcess == [bcast |-> <<>>, parts |-> {}, barrier |-> {}]

\* a record of log.info: the text of the message and the numbers put into it
Info(text, args) == [text |-> text, args |-> args]

\* log.info(f"Performing closure check on original set of {len(ifg_files)} ifgs")
InfoOriginalSet(files) ==
    Info("Performing closure check on original set of ifgs", <<Len(files)>>)

\* msg of the MAX_LOOP_LENGTH criteria
InfoMaxLoopLength(p, loops) ==
    Info("After applying MAX_LOOP_LENGTH criteria, loops are retained",
         <<p.MAX_LOOP_LENGTH, Len(loops)>>)

\* msg of the MAX_LOOPS_IN_IFG criteria
InfoMaxLoopsInIfg(p, loops) ==
    Info("After applying MAX_LOOPS_IN_IFG criteria, loops are retained",
         <<p.MAX_LOOPS_IN_IFG, Len(loops)>>)

\* the message of __drop_ifgs_if_not_part_of_any_loop, written when it has
\* dropped a measurement
InfoOrphans(files, selected) ==
    IF Len(files) # Len(selected)
    THEN <<Info("Only of the original participate in one or more loops",
                <<Len(selected), Len(files)>>)>>
    ELSE <<>>

\* log.info(f"After closure check {len(ifg_files)} ifgs are retained")
InfoRetained(files) == Info("After closure check ifgs are retained", <<Len(files)>>)

\* the two messages of detect_pix_with_unwrapping_errors
InfoDetector(files) ==
    <<Info("Updating phase data of retained ifgs", <<>>),
      Info("Updated phase data of retained ifgs after phase closure", <<Len(files)>>)>>

\* plot_closure is called when interactive_plot holds (the default) on rank 0
interactive_plot == TRUE

(***************************************************************************)
(* Initial states: a measurement list in some unsorted order, and phase    *)
(* data that is consistent but for at most MaxErrs unwrapping errors.      *)
(***************************************************************************)
ErrorSets(S) ==
    UNION {{Range(f) : f \in [1 .. k -> S \X Pixels]} : k \in 0 .. MaxErrs}

PhaseWith(errs) ==
    [e \in AllEdges |-> [px \in Pixels |-> IF <<e, px>> \in errs THEN 1 ELSE 0]]

NoNans == [e \in AllEdges |-> {}]

Init ==
    /\ params \in {p \in Params : p.PHS_UNW_ERR_THR = 1}
    /\ \E S \in SUBSET AllEdges :
          /\ interferogram_files = ReversedSeq(SortedSeq(S))
          /\ \E errs \in ErrorSets(S) : phase = PhaseWith(errs)
    /\ nan_pixels = NoNans
    /\ pc = "wrap_sort"
    /\ ifg_files = interferogram_files
    /\ sorted_signed_loops = Unbound
    /\ retained_loops_meeting_max_loop_criretia = Unbound
    /\ retained_loops = Unbound
    /\ ifgs_with_loops = Unbound
    /\ closure = Unbound
    /\ ifgs_breach_count = Unbound
    /\ num_occurences_each_ifg = Unbound
    /\ selected_ifg_files = Unbound
    /\ rets = Unbound
    /\ new_ifg_files = Unbound
    /\ saved = Unbound
    /\ plotted = 0
    /\ pix_unwrap = Unbound
    /\ result = Unbound
    /\ iteration = 1
    /\ ran = <<>>
    /\ comm = SingleProcess
    /\ log = <<InfoOriginalSet(interferogram_files)>>

(***************************************************************************)
(* wrap_closure_check, stage by stage.                                     *)
(***************************************************************************)
\* mutant: the test for an empty loop list is off by one
NoLoopsOffByOne(loops) == Len(loops) < 0

\* len(loops) < 1
NoLoops(loops) == Len(loops) < 1

\* mutant: a loop of exactly MAX_LOOP_LENGTH edges is dropped
LengthFilteredStrict(loops, p) == SelectSeq(loops, LAMBDA sl : LoopLen(sl) < p.MAX_LOOP_LENGTH)

\* the loops of at most MAX_LOOP_LENGTH edges, in the order of the list
LengthFiltered(loops, p) == SelectSeq(loops, LAMBDA sl : LoopLen(sl) <= p.MAX_LOOP_LENGTH)

\* mutant: the loops are found on a sorted copy, the list itself is not sorted
SortLoopsOfCopy ==
    /\ pc = "wrap_sort"
    /\ sorted_signed_loops' = sort_loops_based_on_weights_and_date(SortFiles(ifg_files))
    /\ ran' = <<"finder">>
    /\ pc' = "wrap_length"
    /\ UNCHANGED <<inputs, log, comm, nan_pixels, ifg_files,
                   retained_loops_meeting_max_loop_criretia, retained_loops,
                   ifgs_with_loops, closure, ifgs_breach_count, num_occurences_each_ifg,
                   selected_ifg_files, rets, new_ifg_files, saved, plotted, pix_unwrap,
                   result, iteration>>

\* ifg_files.sort(); sort_loops_based_on_weights_and_date
SortLoops ==
    /\ pc = "wrap_sort"
    /\ LET sorted_files == SortFiles(ifg_files)
       IN /\ ifg_files' = sorted_files
          /\ sorted_signed_loops' = sort_loops_based_on_weights_and_date(sorted_files)
    /\ ran' = <<"finder">>
    /\ pc' = "wrap_length"
    /\ UNCHANGED <<inputs, log, comm, nan_pixels, retained_loops_meeting_max_loop_criretia,
                   retained_loops, ifgs_with_loops, closure, ifgs_breach_count,
                   num_occurences_each_ifg, selected_ifg_files, rets, new_ifg_files,
                   saved, plotted, pix_unwrap, result, iteration>>

\* if len(...) < 1: return None, else: log.info(msg), after the length filter
LogLengthFilter(lg, p, retained) ==
    IF NoLoops(retained) THEN lg ELSE Append(lg, InfoMaxLoopLength(p, retained))

\* the message of the orphan rule, where the process runs the rule itself,
\* and then: if len(...) < 1: return None, else: log.info(msg)
LogCountPruner(lg, p, orphan_info, loops) ==
    IF NoLoops(loops) THEN lg \o orphan_info
    ELSE Append(lg \o orphan_info, InfoMaxLoopsInIfg(p, loops))

\* the MAX_LOOP_LENGTH filter and the first "return None"
LengthFilter ==
    /\ pc = "wrap_length"
    /\ LET retained == LengthFiltered(sorted_signed_loops, params)
       IN /\ retained_loops_meeting_max_loop_criretia' = retained
          /\ IF NoLoops(retained)
             THEN rets' = None /\ pc' = "returned_from_wrap"
             ELSE rets' = rets /\ pc' = "wrap_count"
          /\ log' = LogLengthFilter(log, params, retained)
    /\ ran' = Append(ran, "length_filter")
    /\ UNCHANGED <<inputs, comm, nan_pixels, ifg_files, sorted_signed_loops, retained_loops,
                   ifgs_with_loops, closure, ifgs_breach_count, num_occurences_each_ifg,
                   selected_ifg_files, new_ifg_files, saved, plotted, pix_unwrap,
                   result, iteration>>

\* run_once(discard_loops_containing_max_ifg_count, ...)
CountPruner ==
    /\ pc = "wrap_count"
    /\ retained_loops' = discard_loops_containing_max_ifg_count(
                             retained_loops_meeting_max_loop_criretia, params)
    /\ ran' = Append(ran, "count_pruner")
    /\ pc' = "wrap_orphans"
    /\ UNCHANGED <<inputs, log, comm, nan_pixels, ifg_files, sorted_signed_loops,
                   retained_loops_meeting_max_loop_criretia, ifgs_with_loops, closure,
                   ifgs_breach_count, num_occurences_each_ifg, selected_ifg_files, rets,
                   new_ifg_files, saved, plotted, pix_unwrap, result, iteration>>

\* run_once(__drop_ifgs_if_not_part_of_any_loop, ...), and then the second
\* "return None", after the MAX_LOOPS_IN_IFG criteria
DropOrphans ==
    /\ pc = "wrap_orphans"
    /\ ifgs_with_loops' = drop_ifgs_if_not_part_of_any_loop(ifg_files, retained_loops)
    /\ ran' = Append(ran, "orphan_rule")
    /\ IF NoLoops(retained_loops)
       THEN rets' = None /\ pc' = "returned_from_wrap"
       ELSE rets' = rets /\ pc' = "wrap_sum"
    /\ log' = LogCountPruner(log, params,
                             InfoOrphans(ifg_files,
                                         drop_ifgs_if_not_part_of_any_loop(
                                             ifg_files, retained_loops)),
                             retained_loops)
    /\ UNCHANGED <<inputs, comm, nan_pixels, ifg_files, sorted_signed_loops,
                   retained_loops_meeting_max_loop_criretia, retained_loops, closure,
                   ifgs_breach_count, num_occurences_each_ifg, selected_ifg_files,
                   new_ifg_files, saved, plotted, pix_unwrap, result, iteration>>

\* mutant: the loops are passed as they were before the count pruner
SumArgsUnprunedLoops ==
    [ifg_files |-> ifgs_with_loops, loops |-> retained_loops_meeting_max_loop_criretia]

\* the arguments of the sum_phase_closures call
SumArgs == [ifg_files |-> ifgs_with_loops, loops |-> retained_loops]

\* closure, ifgs_breach_count, num_occurences_each_ifg = sum_phase_closures(...)
SumClosures ==
    /\ pc = "wrap_sum"
    /\ LET s == sum_phase_closures(SumArgs.ifg_files, SumArgs.loops, params, phase)
       IN /\ closure' = s.closure
          /\ ifgs_breach_count' = s.ifgs_breach_count
          /\ num_occurences_each_ifg' = s.num_occurences_each_ifg
    /\ ran' = Append(ran, "closure_sum")
    /\ pc' = "wrap_save"
    /\ UNCHANGED <<inputs, log, comm, nan_pixels, ifg_files, sorted_signed_loops,
                   retained_loops_meeting_max_loop_criretia, retained_loops,
                   ifgs_with_loops, selected_ifg_files, rets, new_ifg_files, saved,
                   plotted, pix_unwrap, result, iteration>>

\* the four np.save calls of rank 0
SaveClosure ==
    /\ pc = "wrap_save"
    /\ saved' = [closure |-> closure,
                 ifgs_breach_count |-> ifgs_breach_count,
                 num_occurences_each_ifg |-> num_occurences_each_ifg,
                 loops |-> retained_loops]
    /\ ran' = Append(ran, "save")
    /\ pc' = "wrap_threshold"
    /\ UNCHANGED <<inputs, log, comm, nan_pixels, ifg_files, wrap_locals, rets, new_ifg_files,
                   plotted, pix_unwrap, result, iteration>>

\* what wrap_closure_check returns at its end
WrapReturn(selected) ==
    [selected_ifg_files |-> selected,
     closure |-> closure,
     ifgs_breach_count |-> ifgs_breach_count,
     num_occurences_each_ifg |-> num_occurences_each_ifg,
     retained_loops |-> retained_loops]

\* mutant: a file is marked only at the pixels where it is flagged itself
MarkNansFlaggedOnly(nans, files, index) ==
    [e \in AllEdges |->
        IF e \in Range(files)
        THEN nans[e] \cup
                 {px \in index : \E i \in 1 .. Len(files) :
                     /\ SortFiles(files)[i] = e
                     /\ ifgs_breach_count[px][i] = num_occurences_each_ifg[i]}
        ELSE nans[e]]

\* ifg.phase_data[nan_index] = np.nan, for every file of params[cf.INTERFEROGRAM_FILES]
MarkNans(nans, files, index) ==
    [e \in AllEdges |-> IF e \in Range(files) THEN nans[e] \cup index ELSE nans[e]]

\* mutant: the call runs the pixel detector before the threshold rule
DropExceedingAfterDetect ==
    /\ pc = "wrap_threshold"
    /\ pix_unwrap' = pix_unwrap_error(ifgs_breach_count, num_occurences_each_ifg)
    /\ nan_pixels' = MarkNans(nan_pixels, interferogram_files,
                              nan_index(ifgs_breach_count, num_occurences_each_ifg, params))
    /\ LET selected == drop_ifgs_exceeding_threshold(
                            ifgs_with_loops, ifgs_breach_count,
                            num_occurences_each_ifg, params)
       IN /\ selected_ifg_files' = selected
          /\ rets' = WrapReturn(selected)
    /\ ifgs_with_loops' = SortFiles(ifgs_with_loops)
    /\ ran' = ran \o <<"pixel_detector", "threshold_rule">>
    /\ pc' = "returned_from_wrap"
    /\ UNCHANGED <<inputs, log, comm, ifg_files, sorted_signed_loops,
                   retained_loops_meeting_max_loop_criretia, retained_loops, closure,
                   ifgs_breach_count, num_occurences_each_ifg, new_ifg_files, saved,
                   plotted, result, iteration>>

\* run_once(__drop_ifgs_exceeding_threshold, ...) and the return
DropExceeding ==
    /\ pc = "wrap_threshold"
    /\ LET selected == drop_ifgs_exceeding_threshold(
                            ifgs_with_loops, ifgs_breach_count,
                            num_occurences_each_ifg, params)
       IN /\ selected_ifg_files' = selected
          /\ rets' = WrapReturn(selected)
    /\ ifgs_with_loops' = SortFiles(ifgs_with_loops)
    /\ ran' = Append(ran, "threshold_rule")
    /\ pc' = "returned_from_wrap"
    /\ UNCHANGED <<inputs, log, comm, nan_pixels, ifg_files, sorted_signed_loops,
                   retained_loops_meeting_max_loop_criretia, retained_loops, closure, ifgs_breach_count, num_occurences_each_ifg,
                   new_ifg_files, saved, plotted, pix_unwrap, result, iteration>>

\* mutant: the count pruner is skipped
wrap_closure_check_unpruned(files, p, ph) ==
    LET sorted_files == SortFiles(files)
        meeting == LengthFiltered(sort_loops_based_on_weights_and_date(sorted_files), p)
    IN IF NoLoops(meeting) THEN None
       ELSE LET with_loops == drop_ifgs_if_not_part_of_any_loop(sorted_files, meeting)
                s == sum_phase_closures(with_loops, meeting, p, ph)
            IN [selected_ifg_files |->
                    drop_ifgs_exceeding_threshold(with_loops, s.ifgs_breach_count,
                                                  s.num_occurences_each_ifg, p),
                closure |-> s.closure,
                ifgs_breach_count |-> s.ifgs_breach_count,
                num_occurences_each_ifg |-> s.num_occurences_each_ifg,
                retained_loops |-> meeting]

\* one call of wrap_closure_check(ifg_files, config) as a whole, on the
\* phase data ph: None, or the five values of the return statement
wrap_closure_check(files, p, ph) ==
    LET sorted_files == SortFiles(files)
        meeting == LengthFiltered(sort_loops_based_on_weights_and_date(sorted_files), p)
    IN IF NoLoops(meeting) THEN None
       ELSE LET retained == discard_loops_containing_max_ifg_count(meeting, p)
                with_loops == drop_ifgs_if_not_part_of_any_loop(sorted_files, retained)
            IN IF NoLoops(retained) THEN None
               ELSE LET s == sum_phase_closures(with_loops, retained, p, ph)
                    IN [selected_ifg_files |->
                            drop_ifgs_exceeding_threshold(
                                with_loops, s.ifgs_breach_count,
                                s.num_occurences_each_ifg, p),
                        closure |-> s.closure,
                        ifgs_breach_count |-> s.ifgs_breach_count,
                        num_occurences_each_ifg |-> s.num_occurences_each_ifg,
                        retained_loops |-> retained]

(***************************************************************************)
(* filter_to_closure_checked_ifgs.                                         *)
(***************************************************************************)
\* if rets is None: return; otherwise rets is unpacked and
\* plot_closure(closure=closure, loops=loops, ...) is called
Unpack ==
    /\ pc = "returned_from_wrap"
    /\ IF rets = None
       THEN /\ result' = None
            /\ pc' = "returned"
            /\ UNCHANGED <<new_ifg_files, plotted, ran>>
       ELSE /\ result' = result
            /\ pc' = "compare"
            /\ new_ifg_files' = rets.selected_ifg_files
            /\ plotted' = IF interactive_plot THEN plotted + 1 ELSE plotted
            /\ ran' = IF interactive_plot THEN Append(ran, "plot") ELSE ran
    /\ UNCHANGED <<inputs, log, comm, nan_pixels, ifg_files, wrap_locals, rets, saved, pix_unwrap,
                   iteration>>

\* mutant: the candidate is compared with the original input list
StableAgainstOriginal(old_files, new_files) == Len(interferogram_files) = Len(new_files)

\* mutant: the lists are compared with <= in place of ==
StableNotGrown(old_files, new_files) == Len(new_files) <= Len(old_files)

\* mutant: the list is compared with itself
StableAlways(old_files, new_files) == Len(old_files) = Len(old_files)

\* len(ifg_files) == len(new_ifg_files)
Stable(old_files, new_files) == Len(old_files) = Len(new_files)

\* break, or ifg_files = new_ifg_files and another wrap_closure_check call
Compare ==
    /\ pc = "compare"
    /\ IF Stable(ifg_files, new_ifg_files)
       THEN /\ pc' = "barrier"
            /\ UNCHANGED <<ifg_files, iteration>>
       ELSE /\ ifg_files' = new_ifg_files
            /\ iteration' = iteration + 1
            /\ pc' = "wrap_sort"
    /\ ran' = IF Stable(ifg_files, new_ifg_files) THEN ran ELSE <<>>
    /\ UNCHANGED <<inputs, log, comm, nan_pixels, wrap_locals, rets, new_ifg_files, saved, plotted,
                   pix_unwrap, result>>

\* mutant: the original input list is returned
FilterReturnOriginalFiles ==
    [ifg_files |-> interferogram_files,
     ifgs_breach_count |-> rets.ifgs_breach_count,
     num_occurences_each_ifg |-> rets.num_occurences_each_ifg]

\* what filter_to_closure_checked_ifgs returns after the loop
FilterReturn ==
    [ifg_files |-> ifg_files,
     ifgs_breach_count |-> rets.ifgs_breach_count,
     num_occurences_each_ifg |-> rets.num_occurences_each_ifg]

\* mpiops.comm.barrier() and the return
Finish ==
    /\ pc = "barrier"
    /\ result' = FilterReturn
    /\ log' = Append(log, InfoRetained(ifg_files))
    /\ pc' = "returned"
    /\ UNCHANGED <<inputs, comm, nan_pixels, ifg_files, wrap_locals, rets, new_ifg_files,
                   saved, plotted, pix_unwrap, iteration, ran>>

Next ==
    \/ SortLoops
    \/ LengthFilter
    \/ CountPruner
    \/ DropOrphans
    \/ SumClosures
    \/ SaveClosure
    \/ DropExceeding
    \/ Unpack
    \/ Compare
    \/ Finish

Spec == Init /\ [][Next]_vars

\* the state of the stability iterator
IterState ==
    IF pc = "returned" /\ result = None THEN "ABORTED"
    ELSE IF pc \in {"barrier", "returned"} THEN "CONVERGED"
    ELSE "RUNNING"

(***************************************************************************)
(* Array-level specification: __drop_ifgs_exceeding_threshold and          *)
(* detect_pix_with_unwrapping_errors applied to file lists and arrays      *)
(* drawn from bounded sets (loop counts 0 .. MaxOcc, breach counts up to   *)
(* the loop count).                                                        *)
(***************************************************************************)
FunIfgLists == {<<<<1, 2>>>>, <<<<1, 3>>, <<1, 2>>>>}

FunArrays(n) ==
    {a \in [ifgs_breach_count : [Pixels -> [1 .. n -> 0 .. MaxOcc]],
            num_occurences_each_ifg : [1 .. n -> 0 .. MaxOcc]] :
        \A px \in Pixels : \A i \in 1 .. n :
            a.ifgs_breach_count[px][i] <= a.num_occurences_each_ifg[i]}

FunInit ==
    /\ params \in {p \in Params : p.MAX_LOOP_LENGTH = 3 /\ p.MAX_LOOPS_IN_IFG = 1}
    /\ interferogram_files \in FunIfgLists
    /\ phase = PhaseWith({})
    /\ nan_pixels = NoNans
    /\ pc = "fun_threshold"
    /\ ifg_files = interferogram_files
    /\ sorted_signed_loops = Unbound
    /\ retained_loops_meeting_max_loop_criretia = Unbound
    /\ retained_loops = Unbound
    /\ ifgs_with_loops = interferogram_files
    /\ closure = Unbound
    /\ \E a \in FunArrays(Len(interferogram_files)) :
          /\ ifgs_breach_count = a.ifgs_breach_count
          /\ num_occurences_each_ifg = a.num_occurences_each_ifg
    /\ selected_ifg_files = Unbound
    /\ rets = Unbound
    /\ new_ifg_files = Unbound
    /\ saved = Unbound
    /\ plotted = 0
    /\ pix_unwrap = Unbound
    /\ result = Unbound
    /\ iteration = 1
    /\ ran = <<>>
    /\ comm = SingleProcess
    /\ log = <<>>

\* __drop_ifgs_exceeding_threshold(orig_ifg_files, ifgs_breach_count, ...)
FunThreshold ==
    /\ pc = "fun_threshold"
    /\ selected_ifg_files' = drop_ifgs_exceeding_threshold(
                                 ifgs_with_loops, ifgs_breach_count,
                                 num_occurences_each_ifg, params)
    /\ ifgs_with_loops' = SortFiles(ifgs_with_loops)
    /\ ran' = Append(ran, "threshold_rule")
    /\ pc' = "fun_detect"
    /\ UNCHANGED <<inputs, log, comm, nan_pixels, ifg_files, sorted_signed_loops,
                   retained_loops_meeting_max_loop_criretia, retained_loops, closure,
                   ifgs_breach_count, num_occurences_each_ifg, rets, new_ifg_files,
                   saved, plotted, pix_unwrap, result, iteration>>

\* detect_pix_with_unwrapping_errors(ifgs_breach_count, num_occurrences_each_ifg, params)
FunDetect ==
    /\ pc = "fun_detect"
    /\ pix_unwrap' = pix_unwrap_error(ifgs_breach_count, num_occurences_each_ifg)
    /\ nan_pixels' = MarkNans(nan_pixels, interferogram_files,
                              nan_index(ifgs_breach_count, num_occurences_each_ifg, params))
    /\ ran' = Append(ran, "pixel_detector")
    /\ log' = log \o InfoDetector(interferogram_files)
    /\ pc' = "fun_done"
    /\ UNCHANGED <<inputs, comm, ifg_files, wrap_locals, rets, new_ifg_files, saved, plotted,
                   result, iteration>>

FunNext == FunThreshold \/ FunDetect

SpecFun == FunInit /\ [][FunNext]_vars

Stages == {ran[i] : i \in 1 .. Len(ran)}

(***************************************************************************)
(* The closure check under MPI.  The same input is processed twice, as in  *)
(* the test of the MPI run against the single-process run: by a group of   *)
(* NumRanks workers, and then by one process alone.  Every process         *)
(* executes filter_to_closure_checked_ifgs; in this specification a        *)
(* variable of the run holds one value per process, and saved and plotted  *)
(* hold one value per run (each run has its own output directory).         *)
(* mpiops (run_once, rank, comm.barrier) and the reduction inside          *)
(* sum_phase_closures are not part of the sources at hand: they are        *)
(* modelled from the written specification.                                *)
(***************************************************************************)
NumRanks == 2

Worlds == {"mpi", "single"}

\* mpiops.size
Size(world) == IF world = "single" THEN 1 ELSE NumRanks

Procs == {q \in Worlds \X (0 .. NumRanks - 1) : q[2] < Size(q[1])}

World(q) == q[1]

\* mpiops.rank
Rank(q) == q[2]

\* the processes of the run of q
Group(q) == {o \in Procs : World(o) = World(q)}

\* the runs are started one after the other: the single-process run starts
\* when the MPI run has ended
Turn(q) ==
    World(q) = "mpi" \/ \A o \in Procs : World(o) = "mpi" => pc[o] = "returned"

\* run_once(f, *args): the process of rank 0 executes f; the others wait for
\* its broadcast
run_once_ready(q) == Rank(q) = 0 \/ comm.bcast[q] # <<>>

\* the value run_once returns at q, value being f(*args) as rank 0 computes it
run_once(q, value) == IF Rank(q) = 0 THEN value ELSE Head(comm.bcast[q])

\* comm.bcast inside run_once: the root sends to every other process of its
\* run, which takes the message from its channel
bcast(q, value) ==
    [comm EXCEPT !.bcast =
        [o \in Procs |->
            IF Rank(q) = 0
            THEN (IF o \in Group(q) \ {q} THEN Append(comm.bcast[o], value)
                  ELSE comm.bcast[o])
            ELSE (IF o = q THEN Tail(comm.bcast[o]) ELSE comm.bcast[o])]]

\* the stages q has executed itself, after a stage that runs under run_once
Executed(q, stage) == IF Rank(q) = 0 THEN Append(ran[q], stage) ELSE ran[q]

Upd(f, q, v) == [f EXCEPT ![q] = v]

\* the configurations of the runs that are compared, with the
\* MAX_LOOP_LENGTH of 3 the test sets
MpiParams ==
    {p \in Params : /\ p.PHS_UNW_ERR_THR = 1
                    /\ p.MAX_LOOPS_IN_IFG = 1
                    /\ p.MAX_LOOP_LENGTH = 3}

\* the phase data are read with the consistent measurements and a single
\* unwrapping error, at most

MpiErrorSets(S) == {{}} \cup {{c} : c \in S \X Pixels}

MpiInit ==
    /\ params \in MpiParams
    /\ \E S \in {T \in SUBSET AllEdges : Cardinality(T) >= 5} :
          /\ interferogram_files = ReversedSeq(SortedSeq(S))
          /\ \E errs \in MpiErrorSets(S) : phase = PhaseWith(errs)
    /\ nan_pixels = NoNans
    /\ pc = [q \in Procs |-> "wrap_sort"]
    /\ ifg_files = [q \in Procs |-> interferogram_files]
    /\ sorted_signed_loops = [q \in Procs |-> Unbound]
    /\ retained_loops_meeting_max_loop_criretia = [q \in Procs |-> Unbound]
    /\ retained_loops = [q \in Procs |-> Unbound]
    /\ ifgs_with_loops = [q \in Procs |-> Unbound]
    /\ closure = [q \in Procs |-> Unbound]
    /\ ifgs_breach_count = [q \in Procs |-> Unbound]
    /\ num_occurences_each_ifg = [q \in Procs |-> Unbound]
    /\ selected_ifg_files = [q \in Procs |-> Unbound]
    /\ rets = [q \in Procs |-> Unbound]
    /\ new_ifg_files = [q \in Procs |-> Unbound]
    /\ saved = [w \in Worlds |-> Unbound]
    /\ plotted = [w \in Worlds |-> 0]
    /\ pix_unwrap = Unbound
    /\ result = [q \in Procs |-> Unbound]
    /\ iteration = [q \in Procs |-> 1]
    /\ ran = [q \in Procs |-> <<>>]
    /\ comm = [bcast |-> [q \in Procs |-> <<>>], parts |-> {}, barrier |-> {}]
    /\ log = [q \in Procs |-> <<InfoOriginalSet(interferogram_files)>>]

\* ifg_files.sort(); run_once(sort_loops_based_on_weights_and_date, ifg_files)
SortLoopsAt(q) ==
    /\ pc[q] = "wrap_sort"
    /\ run_once_ready(q)
    /\ LET sorted_files == SortFiles(ifg_files[q])
           loops == run_once(q, sort_loops_based_on_weights_and_date(sorted_files))
       IN /\ ifg_files' = Upd(ifg_files, q, sorted_files)
          /\ sorted_signed_loops' = Upd(sorted_signed_loops, q, loops)
          /\ comm' = bcast(q, loops)
    /\ ran' = Upd(ran, q, Executed(q, "finder"))
    /\ pc' = Upd(pc, q, "wrap_length")
    /\ UNCHANGED <<inputs, log, nan_pixels, retained_loops_meeting_max_loop_criretia,
                   retained_loops, ifgs_with_loops, closure, ifgs_breach_count,
                   num_occurences_each_ifg, selected_ifg_files, rets, new_ifg_files,
                   saved, plotted, pix_unwrap, result, iteration>>

\* the MAX_LOOP_LENGTH filter, which every process computes, and the first
\* "return None"
LengthFilterAt(q) ==
    /\ pc[q] = "wrap_length"
    /\ LET retained == LengthFiltered(sorted_signed_loops[q], params)
       IN /\ retained_loops_meeting_max_loop_criretia' =
                 Upd(retained_loops_meeting_max_loop_criretia, q, retained)
          /\ IF NoLoops(retained)
             THEN rets' = Upd(rets, q, None) /\ pc' = Upd(pc, q, "returned_from_wrap")
             ELSE rets' = rets /\ pc' = Upd(pc, q, "wrap_count")
          /\ log' = Upd(log, q, LogLengthFilter(log[q], params, retained))
    /\ ran' = Upd(ran, q, Append(ran[q], "length_filter"))
    /\ UNCHANGED <<inputs, comm, nan_pixels, ifg_files, sorted_signed_loops,
                   retained_loops, ifgs_with_loops, closure, ifgs_breach_count,
                   num_occurences_each_ifg, selected_ifg_files, new_ifg_files, saved,
                   plotted, pix_unwrap, result, iteration>>

\* mutant: every process calls the count pruner itself
CountPrunerDirectAt(q) ==
    /\ pc[q] = "wrap_count"
    /\ retained_loops' =
           Upd(retained_loops, q,
               discard_loops_containing_max_ifg_count(
                   retained_loops_meeting_max_loop_criretia[q], params))
    /\ ran' = Upd(ran, q, Append(ran[q], "count_pruner"))
    /\ pc' = Upd(pc, q, "wrap_orphans")
    /\ UNCHANGED <<inputs, log, comm, nan_pixels, ifg_files, sorted_signed_loops,
                   retained_loops_meeting_max_loop_criretia, ifgs_with_loops, closure,
                   ifgs_breach_count, num_occurences_each_ifg, selected_ifg_files, rets,
                   new_ifg_files, saved, plotted, pix_unwrap, result, iteration>>

\* run_once(discard_loops_containing_max_ifg_count, ...)
CountPrunerAt(q) ==
    /\ pc[q] = "wrap_count"
    /\ run_once_ready(q)
    /\ LET loops == run_once(q, discard_loops_containing_max_ifg_count(
                                    retained_loops_meeting_max_loop_criretia[q], params))
       IN /\ retained_loops' = Upd(retained_loops, q, loops)
          /\ comm' = bcast(q, loops)
    /\ ran' = Upd(ran, q, Executed(q, "count_pruner"))
    /\ pc' = Upd(pc, q, "wrap_orphans")
    /\ UNCHANGED <<inputs, log, nan_pixels, ifg_files, sorted_signed_loops,
                   retained_loops_meeting_max_loop_criretia, ifgs_with_loops, closure,
                   ifgs_breach_count, num_occurences_each_ifg, selected_ifg_files, rets,
                   new_ifg_files, saved, plotted, pix_unwrap, result, iteration>>

\* run_once(__drop_ifgs_if_not_part_of_any_loop, ...), and then the second
\* "return None"
DropOrphansAt(q) ==
    /\ pc[q] = "wrap_orphans"
    /\ run_once_ready(q)
    /\ LET files == run_once(q, drop_ifgs_if_not_part_of_any_loop(
                                    ifg_files[q], retained_loops[q]))
       IN /\ ifgs_with_loops' = Upd(ifgs_with_loops, q, files)
          /\ comm' = bcast(q, files)
    /\ ran' = Upd(ran, q, Executed(q, "orphan_rule"))
    /\ IF NoLoops(retained_loops[q])
       THEN rets' = Upd(rets, q, None) /\ pc' = Upd(pc, q, "returned_from_wrap")
       ELSE rets' = rets /\ pc' = Upd(pc, q, "wrap_sum")
    /\ log' = Upd(log, q,
                  LogCountPruner(log[q], params,
                                 IF Rank(q) = 0
                                 THEN InfoOrphans(ifg_files[q],
                                                  drop_ifgs_if_not_part_of_any_loop(
                                                      ifg_files[q], retained_loops[q]))
                                 ELSE <<>>,
                                 retained_loops[q]))
    /\ UNCHANGED <<inputs, nan_pixels, ifg_files, sorted_signed_loops,
                   retained_loops_meeting_max_loop_criretia, retained_loops, closure,
                   ifgs_breach_count, num_occurences_each_ifg, selected_ifg_files,
                   new_ifg_files, saved, plotted, pix_unwrap, result, iteration>>

\* the pixels a process works on inside sum_phase_closures: the columns are
\* dealt out to the ranks in turn
MyPixels(q) == {px \in Pixels : (px[2] - 1) % Size(World(q)) = Rank(q)}

\* the arrays of sum_phase_closures at the pixels of the process
SumPart(q) ==
    LET s == sum_phase_closures(ifgs_with_loops[q], retained_loops[q], params, phase)
    IN [closure |-> [px \in MyPixels(q) |-> s.closure[px]],
        ifgs_breach_count |-> [px \in MyPixels(q) |-> s.ifgs_breach_count[px]],
        num_occurences_each_ifg |-> s.num_occurences_each_ifg]

\* the part a process has handed in for an iteration
PartOf(o, it) == (CHOOSE m \in comm.parts : m.proc = o /\ m.it = it).part

\* mutant: a process goes on with its own part, zero at the pixels of the others
OwnPartOnly(q) ==
    LET mine == PartOf(q, iteration[q])
        n == Len(mine.num_occurences_each_ifg)
        m == Len(retained_loops[q])
    IN [closure |-> [px \in Pixels |-> IF px \in MyPixels(q) THEN mine.closure[px]
                                       ELSE [l \in 1 .. m |-> 0]],
        ifgs_breach_count |->
            [px \in Pixels |-> IF px \in MyPixels(q) THEN mine.ifgs_breach_count[px]
                               ELSE [i \in 1 .. n |-> 0]],
        num_occurences_each_ifg |-> mine.num_occurences_each_ifg]

\* the reduction: the parts of all the processes of the run, merged
MergedParts(q) ==
    LET owner(px) == CHOOSE o \in Group(q) : px \in MyPixels(o)
    IN [closure |-> [px \in Pixels |-> PartOf(owner(px), iteration[q]).closure[px]],
        ifgs_breach_count |->
            [px \in Pixels |-> PartOf(owner(px), iteration[q]).ifgs_breach_count[px]],
        num_occurences_each_ifg |-> PartOf(q, iteration[q]).num_occurences_each_ifg]

\* sum_phase_closures(ifgs_with_loops, retained_loops, params): the process
\* computes its part and hands it in
SumPartAt(q) ==
    /\ pc[q] = "wrap_sum"
    /\ comm' = [comm EXCEPT !.parts =
                   @ \cup {[proc |-> q, it |-> iteration[q], part |-> SumPart(q)]}]
    /\ pc' = Upd(pc, q, "wrap_reduce")
    /\ UNCHANGED <<inputs, log, nan_pixels, ifg_files, wrap_locals, rets, new_ifg_files,
                   saved, plotted, pix_unwrap, result, iteration, ran>>

\* closure, ifgs_breach_count, num_occurences_each_ifg = sum_phase_closures(...):
\* the call returns when every process of the run has handed in its part
SumReduceAt(q) ==
    /\ pc[q] = "wrap_reduce"
    /\ \A o \in Group(q) : \E m \in comm.parts : m.proc = o /\ m.it = iteration[q]
    /\ LET s == MergedParts(q)
       IN /\ closure' = Upd(closure, q, s.closure)
          /\ ifgs_breach_count' = Upd(ifgs_breach_count, q, s.ifgs_breach_count)
          /\ num_occurences_each_ifg' =
                 Upd(num_occurences_each_ifg, q, s.num_occurences_each_ifg)
    /\ ran' = Upd(ran, q, Append(ran[q], "closure_sum"))
    /\ pc' = Upd(pc, q, "wrap_save")
    /\ UNCHANGED <<inputs, log, comm, nan_pixels, ifg_files, sorted_signed_loops,
                   retained_loops_meeting_max_loop_criretia, retained_loops,
                   ifgs_with_loops, selected_ifg_files, rets, new_ifg_files, saved,
                   plotted, pix_unwrap, result, iteration>>

\* mutant: every process writes the arrays
SaveGuardAll(q) == TRUE

\* if mpiops.rank == 0:
SaveGuard(q) == Rank(q) = 0

\* the ranks that have written the arrays of a run so far
WrittenBy(world) == IF saved[world] = Unbound THEN {} ELSE saved[world].written_by

\* the four np.save calls, under the rank test
SaveClosureAt(q) ==
    /\ pc[q] = "wrap_save"
    /\ IF SaveGuard(q)
       THEN /\ saved' = Upd(saved, World(q),
                            [closure |-> closure[q],
                             ifgs_breach_count |-> ifgs_breach_count[q],
                             num_occurences_each_ifg |-> num_occurences_each_ifg[q],
                             loops |-> retained_loops[q],
                             written_by |-> WrittenBy(World(q)) \cup {Rank(q)}])
            /\ ran' = Upd(ran, q, Append(ran[q], "save"))
       ELSE UNCHANGED <<saved, ran>>
    /\ pc' = Upd(pc, q, "wrap_threshold")
    /\ UNCHANGED <<inputs, log, comm, nan_pixels, ifg_files, wrap_locals, rets,
                   new_ifg_files, plotted, pix_unwrap, result, iteration>>

\* what wrap_closure_check returns at its end, at q
WrapReturnAt(q, selected) ==
    [selected_ifg_files |-> selected,
     closure |-> closure[q],
     ifgs_breach_count |-> ifgs_breach_count[q],
     num_occurences_each_ifg |-> num_occurences_each_ifg[q],
     retained_loops |-> retained_loops[q]]

\* run_once(__drop_ifgs_exceeding_threshold, ...) and the return
DropExceedingAt(q) ==
    /\ pc[q] = "wrap_threshold"
    /\ run_once_ready(q)
    /\ LET selected == run_once(q, drop_ifgs_exceeding_threshold(
                                       ifgs_with_loops[q], ifgs_breach_count[q],
                                       num_occurences_each_ifg[q], params))
       IN /\ selected_ifg_files' = Upd(selected_ifg_files, q, selected)
          /\ rets' = Upd(rets, q, WrapReturnAt(q, selected))
          /\ comm' = bcast(q, selected)
    /\ ifgs_with_loops' =
           Upd(ifgs_with_loops, q,
               IF Rank(q) = 0 THEN SortFiles(ifgs_with_loops[q]) ELSE ifgs_with_loops[q])
    /\ ran' = Upd(ran, q, Executed(q, "threshold_rule"))
    /\ pc' = Upd(pc, q, "returned_from_wrap")
    /\ UNCHANGED <<inputs, log, nan_pixels, ifg_files, sorted_signed_loops,
                   retained_loops_meeting_max_loop_criretia, retained_loops, closure,
                   ifgs_breach_count, num_occurences_each_ifg, new_ifg_files, saved,
                   plotted, pix_unwrap, result, iteration>>

\* if rets is None: return; otherwise rets is unpacked and rank 0 plots
UnpackAt(q) ==
    /\ pc[q] = "returned_from_wrap"
    /\ IF rets[q] = None
       THEN /\ result' = Upd(result, q, None)
            /\ pc' = Upd(pc, q, "returned")
            /\ UNCHANGED <<new_ifg_files, plotted, ran>>
       ELSE /\ result' = result
            /\ pc' = Upd(pc, q, "compare")
            /\ new_ifg_files' = Upd(new_ifg_files, q, rets[q].selected_ifg_files)
            /\ IF interactive_plot /\ Rank(q) = 0
               THEN /\ plotted' = Upd(plotted, World(q), plotted[World(q)] + 1)
                    /\ ran' = Upd(ran, q, Append(ran[q], "plot"))
               ELSE UNCHANGED <<plotted, ran>>
    /\ UNCHANGED <<inputs, log, comm, nan_pixels, ifg_files, wrap_locals, rets, saved,
                   pix_unwrap, iteration>>

\* mutant: the comparison stands under "if mpiops.rank == 0", with the plot:
\* another process calls wrap_closure_check again with the list it has
CompareOnRootAt(q) ==
    /\ pc[q] = "compare"
    /\ IF Rank(q) = 0 /\ Stable(ifg_files[q], new_ifg_files[q])
       THEN /\ pc' = Upd(pc, q, "barrier")
            /\ UNCHANGED <<ifg_files, iteration, ran>>
       ELSE /\ ifg_files' = Upd(ifg_files, q, IF Rank(q) = 0 THEN new_ifg_files[q]
                                              ELSE ifg_files[q])
            /\ iteration' = Upd(iteration, q, iteration[q] + 1)
            /\ ran' = Upd(ran, q, <<>>)
            /\ pc' = Upd(pc, q, "wrap_sort")
    /\ UNCHANGED <<inputs, log, comm, nan_pixels, wrap_locals, rets, new_ifg_files, saved,
                   plotted, pix_unwrap, result>>

\* break, or ifg_files = new_ifg_files and another wrap_closure_check call
CompareAt(q) ==
    /\ pc[q] = "compare"
    /\ IF Stable(ifg_files[q], new_ifg_files[q])
       THEN /\ pc' = Upd(pc, q, "barrier")
            /\ UNCHANGED <<ifg_files, iteration, ran>>
       ELSE /\ ifg_files' = Upd(ifg_files, q, new_ifg_files[q])
            /\ iteration' = Upd(iteration, q, iteration[q] + 1)
            /\ ran' = Upd(ran, q, <<>>)
            /\ pc' = Upd(pc, q, "wrap_sort")
    /\ UNCHANGED <<inputs, log, comm, nan_pixels, wrap_locals, rets, new_ifg_files, saved,
                   plotted, pix_unwrap, result>>

\* mutant: there is no barrier call, the process returns at once
NoBarrierAt(q) ==
    /\ pc[q] = "barrier"
    /\ result' = Upd(result, q,
                     [ifg_files |-> ifg_files[q],
                      ifgs_breach_count |-> rets[q].ifgs_breach_count,
                      num_occurences_each_ifg |-> rets[q].num_occurences_each_ifg])
    /\ pc' = Upd(pc, q, "returned")
    /\ UNCHANGED <<inputs, log, comm, nan_pixels, ifg_files, wrap_locals, rets,
                   new_ifg_files, saved, plotted, pix_unwrap, iteration, ran>>

\* mpiops.comm.barrier(): the process arrives
BarrierAt(q) ==
    /\ pc[q] = "barrier"
    /\ comm' = [comm EXCEPT !.barrier = @ \cup {q}]
    /\ pc' = Upd(pc, q, "barrier_wait")
    /\ UNCHANGED <<inputs, log, nan_pixels, ifg_files, wrap_locals, rets, new_ifg_files,
                   saved, plotted, pix_unwrap, result, iteration, ran>>

\* what filter_to_closure_checked_ifgs returns after the loop, at q
FilterReturnAt(q) ==
    [ifg_files |-> ifg_files[q],
     ifgs_breach_count |-> rets[q].ifgs_breach_count,
     num_occurences_each_ifg |-> rets[q].num_occurences_each_ifg]

\* the barrier lets the process go when every process of the run has arrived
BarrierPassed(q) == Group(q) \subseteq comm.barrier

\* the process leaves the barrier and returns
FinishAt(q) ==
    /\ pc[q] = "barrier_wait"
    /\ BarrierPassed(q)
    /\ result' = Upd(result, q, FilterReturnAt(q))
    /\ log' = Upd(log, q, Append(log[q], InfoRetained(ifg_files[q])))
    /\ pc' = Upd(pc, q, "returned")
    /\ UNCHANGED <<inputs, comm, nan_pixels, ifg_files, wrap_locals, rets,
                   new_ifg_files, saved, plotted, pix_unwrap, iteration, ran>>

MpiNext ==
    \/ \E q \in Procs : Turn(q) /\ SortLoopsAt(q)
    \/ \E q \in Procs : Turn(q) /\ LengthFilterAt(q)
    \/ \E q \in Procs : Turn(q) /\ CountPrunerAt(q)
    \/ \E q \in Procs : Turn(q) /\ DropOrphansAt(q)
    \/ \E q \in Procs : Turn(q) /\ SumPartAt(q)
    \/ \E q \in Procs : Turn(q) /\ SumReduceAt(q)
    \/ \E q \in Procs : Turn(q) /\ SaveClosureAt(q)
    \/ \E q \in Procs : Turn(q) /\ DropExceedingAt(q)
    \/ \E q \in Procs : Turn(q) /\ UnpackAt(q)
    \/ \E q \in Procs : Turn(q) /\ CompareAt(q)
    \/ \E q \in Procs : Turn(q) /\ BarrierAt(q)
    \/ \E q \in Procs : Turn(q) /\ FinishAt(q)

SpecMPI == MpiInit /\ [][MpiNext]_vars

(***************************************************************************)
(* Properties.                                                             *)
(***************************************************************************)

\* position of a program location in the order of the code
StageIndex ==
    [l \in {"wrap_sort", "wrap_length", "wrap_count", "wrap_orphans", "wrap_sum",
            "wrap_save", "wrap_threshold", "returned_from_wrap", "compare", "barrier",
            "returned"} |->
        CASE l = "wrap_sort" -> 1 [] l = "wrap_length" -> 2 [] l = "wrap_count" -> 3
          [] l = "wrap_orphans" -> 4 [] l = "wrap_sum" -> 5 [] l = "wrap_save" -> 6
          [] l = "wrap_threshold" -> 7 [] l = "returned_from_wrap" -> 8
          [] l = "compare" -> 9 [] l = "barrier" -> 10 [] l = "returned" -> 11]

\* the distance covered by a run: iterations first, then the location
Progress == iteration * Cardinality(DOMAIN StageIndex) + StageIndex[pc]

\* C1: filter_to_closure_checked_ifgs terminates, converged or aborted: the
\* number of wrap_closure_check calls is at most the initial number of
\* measurements plus one, every step moves the run forward in the order of
\* the code within that bound, and a run that has returned is converged or
\* aborted; along the way the measurement list never grows.
C1_Terminates ==
    /\ [](iteration <= Len(interferogram_files) + 1)
    /\ [](pc \in DOMAIN StageIndex)
    /\ [][Progress' > Progress]_vars
    /\ [](pc = "returned" => (result = None \/ result = FilterReturn))
    /\ [][Len(ifg_files') <= Len(ifg_files)]_vars

C1_Witness ==
    /\ pc = "returned"
    /\ IterState = "CONVERGED"
    /\ iteration >= 3
    /\ Len(ifg_files) < Len(interferogram_files)

\* C2: at the end of a non-aborting iteration the iterator converges if and
\* only if the candidate list is as long as the list of the iteration;
\* otherwise the candidate becomes the measurement list and another
\* iteration starts.
C2_ConvergedIffSameSize ==
    [][pc = "compare" =>
          IF Len(new_ifg_files) = Len(ifg_files)
          THEN IterState' = "CONVERGED" /\ ifg_files' = ifg_files
               /\ iteration' = iteration
          ELSE IterState' = "RUNNING" /\ ifg_files' = new_ifg_files
               /\ iteration' = iteration + 1 /\ pc' = "wrap_sort"]_vars

C2_Witness ==
    /\ pc = "barrier"
    /\ iteration = 2
    /\ Len(new_ifg_files) = Len(ifg_files)
    /\ Len(ifg_files) < Len(interferogram_files)

C4_ReturnsClosure ==
    pc = "returned" =>
        IF rets = None THEN result = None
        ELSE result = [ifg_files |-> selected_ifg_files,
                       closure |-> closure,
                       ifgs_breach_count |-> ifgs_breach_count,
                       num_occurences_each_ifg |-> num_occurences_each_ifg]

\* C4 (amended): a converged run returns the final measurement list with the
\* breach-count and occurrence arrays of the last iteration, and no closure
\* array; an aborted run returns None, which differs from every such value.
C4_ReturnsArrays ==
    pc = "returned" =>
        IF rets = None THEN result = None
        ELSE /\ result = [ifg_files |-> selected_ifg_files,
                          ifgs_breach_count |-> ifgs_breach_count,
                          num_occurences_each_ifg |-> num_occurences_each_ifg]
             /\ result.ifg_files = ifg_files
             /\ "closure" \notin DOMAIN result
             /\ result # None

C4_Witness ==
    /\ pc = "returned"
    /\ rets # None
    /\ iteration >= 2
    /\ Len(result.ifg_files) < Len(interferogram_files)

\* the file's edge is in the edge set of one of the loops
Covered(f, loops) == \E l \in 1 .. Len(loops) : f \in LoopEdges(loops[l])

\* C5: a measurement whose edge is in no retained loop is absent from the
\* candidate list, and a measurement whose edge is in a retained loop passes
\* the orphan rule.
C5_OrphanRule ==
    /\ "orphan_rule" \in Stages =>
           \A f \in Range(ifg_files) :
               Covered(f, retained_loops) => f \in Range(ifgs_with_loops)
    /\ "threshold_rule" \in Stages =>
           \A f \in Range(ifg_files) :
               ~Covered(f, retained_loops) => f \notin Range(selected_ifg_files)

C5_Witness ==
    /\ "threshold_rule" \in Stages
    /\ \E f \in Range(ifg_files) :
          ~Covered(f, retained_loops) /\ f \notin Range(selected_ifg_files)
    /\ \E f \in Range(ifg_files) :
          Covered(f, retained_loops) /\ f \in Range(selected_ifg_files)

\* C6: a measurement covered by a retained loop is dropped by the threshold
\* rule if and only if its occurrence count is above LOOPS_THR_IFG and its
\* breach sum / occurrence count / number of pixels is above AVG_IFG_ERR_THR.
C6_ThresholdAnd ==
    "threshold_rule" \in Stages =>
        \A i \in 1 .. Len(ifgs_with_loops) :
            LET occ == num_occurences_each_ifg[i]
                total == BreachSum(ifgs_breach_count, i)
                thr == params.AVG_IFG_ERR_THR
            IN Covered(ifgs_with_loops[i], retained_loops) =>
                  (ifgs_with_loops[i] \notin Range(selected_ifg_files)
                      <=> (/\ occ > params.LOOPS_THR_IFG
                           /\ total * thr[2] > thr[1] * occ * nrows * ncols))

C6_Witness ==
    /\ "threshold_rule" \in Stages
    /\ \E i \in 1 .. Len(ifgs_with_loops) :
          ifgs_with_loops[i] \notin Range(selected_ifg_files)
    /\ \E i \in 1 .. Len(ifgs_with_loops) :
          /\ ifgs_with_loops[i] \in Range(selected_ifg_files)
          /\ BreachSum(ifgs_breach_count, i) > 0
          /\ num_occurences_each_ifg[i] <= params.LOOPS_THR_IFG
    /\ \E i \in 1 .. Len(ifgs_with_loops) :
          /\ ifgs_with_loops[i] \in Range(selected_ifg_files)
          /\ BreachSum(ifgs_breach_count, i) = 0
          /\ num_occurences_each_ifg[i] > params.LOOPS_THR_IFG

CounterBefore(loops, i, p) ==
    WalkLoops(SubSeq(loops, 1, i - 1), <<>>, ZeroCounter, p).ifg_counter

\* C8: the count pruner discards a loop if and only if every one of its
\* edges has, when the loop is examined, a usage counter >= MAX_LOOPS_IN_IFG;
\* the output is the kept loops in their input order.
C8_DiscardAtCap ==
    "count_pruner" \in Stages =>
        LET loops == retained_loops_meeting_max_loop_criretia
        IN /\ \A i \in 1 .. Len(loops) :
                 loops[i] \notin Range(retained_loops)
                     <=> \A e \in LoopEdges(loops[i]) :
                            CounterBefore(loops, i, params)[e] >= params.MAX_LOOPS_IN_IFG
           /\ retained_loops = SelectSeq(loops, LAMBDA l : l \in Range(retained_loops))

C10_BreachBound ==
    "closure_sum" \in Stages =>
        /\ Len(num_occurences_each_ifg) = Len(ifgs_with_loops)
        /\ \A i \in 1 .. Len(ifgs_with_loops) :
              /\ num_occurences_each_ifg[i]
                     = Cardinality({l \in 1 .. Len(retained_loops) :
                                       ifgs_with_loops[i] \in LoopEdges(retained_loops[l])})
              /\ \A px \in Pixels :
                     ifgs_breach_count[px][i] <= num_occurences_each_ifg[i]
              /\ BreachSum(ifgs_breach_count, i)
                     <= num_occurences_each_ifg[i] * nrows * ncols

C10_Witness ==
    /\ "closure_sum" \in Stages
    /\ \E i \in 1 .. Len(ifgs_with_loops) : \E px \in Pixels :
          /\ num_occurences_each_ifg[i] >= 2
          /\ ifgs_breach_count[px][i] = num_occurences_each_ifg[i]
    /\ \E i \in 1 .. Len(ifgs_with_loops) : \E px \in Pixels :
          /\ ifgs_breach_count[px][i] >= 1
          /\ ifgs_breach_count[px][i] < num_occurences_each_ifg[i]

\* the input of the end-to-end scenario: 4 measurements forming exactly one
\* loop, of 4 edges
OneFourEdgeLoop ==
    /\ Len(interferogram_files) = 4
    /\ LET c == CycleNodes(Range(interferogram_files))
       IN Cardinality(c) = 1 /\ \A n \in c : Len(n) = 4

\* the pixels at which the loop of the scenario breaches
ScenarioBreaching ==
    {px \in Pixels :
        \E n \in CycleNodes(Range(interferogram_files)) :
            LoopBreaches(WeightedLoop(n), px, phase, params)}

ScenarioC11 ==
    /\ params.MAX_LOOP_LENGTH = 4
    /\ params.MAX_LOOPS_IN_IFG = 2
    /\ params.LOOPS_THR_IFG = 0
    /\ params.AVG_IFG_ERR_THR = <<7, 100>>
    /\ Cardinality(Pixels) >= 2
    /\ OneFourEdgeLoop
    /\ Cardinality(ScenarioBreaching) = 1

\* C11: end-to-end scenario.  With 4 measurements forming exactly one 4-edge
\* loop, MAX_LOOP_LENGTH = 4, MAX_LOOPS_IN_IFG = 2, LOOPS_THR_IFG = 0,
\* AVG_IFG_ERR_THR = 0.07 and exactly one breaching pixel, the first
\* iteration computes an occurrence count of 1 for each of the 4
\* measurements and a breach count of 1 at the breaching pixel and 0
\* elsewhere, and drops all 4 measurements; the second iteration, on the
\* empty list, finds no loop, and the run ends ABORTED, returning None.
C11_Scenario ==
    ScenarioC11 =>
        /\ iteration <= 2
        /\ (iteration = 1 /\ "closure_sum" \in Stages) =>
               /\ num_occurences_each_ifg = [i \in 1 .. 4 |-> 1]
               /\ \A px \in Pixels :
                     ifgs_breach_count[px] =
                         [i \in 1 .. 4 |-> IF px \in ScenarioBreaching THEN 1 ELSE 0]
        /\ (iteration = 1 /\ "threshold_rule" \in Stages) => selected_ifg_files = <<>>
        /\ (iteration = 2 /\ "finder" \in Stages) =>
               ifg_files = <<>> /\ sorted_signed_loops = <<>>
        /\ (iteration = 2 /\ "length_filter" \in Stages) => rets = None
        /\ pc \notin {"barrier"}
        /\ pc = "returned" =>
               iteration = 2 /\ result = None /\ IterState = "ABORTED"

C11_Witness ==
    /\ ScenarioC11
    /\ Cardinality(Pixels) = 2
    /\ pc = "returned"
    /\ iteration = 2
    /\ result = None
    /\ Len(interferogram_files) = 4
    /\ selected_ifg_files = <<>>

\* a call of wrap_closure_check has returned the list it was given
ReturnedItself ==
    /\ pc = "returned_from_wrap"
    /\ rets # None
    /\ rets.selected_ifg_files = ifg_files

FullIteration ==
    <<"finder", "length_filter", "count_pruner", "orphan_rule", "closure_sum", "save",
      "threshold_rule">>

\* C14 (as stated): every iteration that reaches the threshold rule of the
\* measurement pruner has run the pixel detector after the closure sum and
\* before that rule.
C14_DetectorBetween ==
    "threshold_rule" \in Stages =>
        \E i, j, k \in 1 .. Len(ran) :
            /\ i < j /\ j < k
            /\ ran[i] = "closure_sum"
            /\ ran[j] = "pixel_detector"
            /\ ran[k] = "threshold_rule"

\* C14 (amended): no iteration runs the pixel detector.  In an iteration
\* that does not abort, the threshold rule of the measurement pruner follows
\* the closure sum and the saving of its arrays directly, and the phase data
\* of the raster store are left without any not-a-number mark.
C14_NoDetectorInIteration ==
    /\ "pixel_detector" \notin Stages
    /\ pix_unwrap = Unbound
    /\ nan_pixels = NoNans
    /\ "threshold_rule" \in Stages => SubSeq(ran, 1, Len(FullIteration)) = FullIteration
    /\ (pc \in {"compare", "barrier"} \/ (pc = "returned" /\ result # None))
           => "threshold_rule" \in Stages

C14_Witness ==
    /\ pc = "compare"
    /\ iteration >= 2
    /\ "threshold_rule" \in Stages
    /\ \E px \in Pixels :
          pix_unwrap_error(ifgs_breach_count, num_occurences_each_ifg)[px]
              >= params.PHS_UNW_ERR_THR

\* the i-th loop of the list given to the count pruner is among the loops
\* it returned
Kept(i) == retained_loops_meeting_max_loop_criretia[i] \in Range(retained_loops)

\* C17: a call of the count pruner starts with every usage counter at zero,
\* whatever the calls before it did; a kept loop adds exactly one to the
\* counter of each of its distinct edges, also of an edge at or above the
\* cap, and changes no other counter; a discarded loop changes no counter.
\* So the counter of an edge ends as the number of kept loops with that edge.
C17_Counters ==
    pc = "wrap_orphans" =>
        LET loops == retained_loops_meeting_max_loop_criretia
            n == Len(loops)
        IN /\ \A e \in AllEdges : CounterBefore(loops, 1, params)[e] = 0
           /\ \A i \in 1 .. n : \A e \in AllEdges :
                 CounterBefore(loops, i + 1, params)[e] =
                     CounterBefore(loops, i, params)[e]
                         + (IF Kept(i) /\ e \in LoopEdges(loops[i]) THEN 1 ELSE 0)
           /\ \A e \in AllEdges :
                 CounterBefore(loops, n + 1, params)[e] =
                     Cardinality({l \in 1 .. Len(retained_loops) :
                                     e \in LoopEdges(retained_loops[l])})

C17_Witness ==
    /\ pc = "wrap_orphans"
    /\ iteration >= 2
    /\ LET loops == retained_loops_meeting_max_loop_criretia
       IN /\ \E i \in 1 .. Len(loops) : ~Kept(i)
          /\ \E i \in 1 .. Len(loops) : \E e \in LoopEdges(loops[i]) :
                /\ Kept(i)
                /\ CounterBefore(loops, i, params)[e] > params.MAX_LOOPS_IN_IFG
                /\ CounterBefore(loops, i + 1, params)[e]
                       = CounterBefore(loops, i, params)[e] + 1

\* the position of a loop in a list of distinct loops
PositionIn(loops, l) == CHOOSE i \in 1 .. Len(loops) : loops[i] = l

\* C18: the loops handed to the count pruner are exactly the sorted loops of
\* at most MAX_LOOP_LENGTH edges, each once and in the relative order of the
\* sorted list; a loop of exactly MAX_LOOP_LENGTH edges is among them.
C18_LengthFilter ==
    "length_filter" \in Stages =>
        LET sorted == sorted_signed_loops
            kept == retained_loops_meeting_max_loop_criretia
        IN /\ \A i \in 1 .. Len(sorted) :
                 sorted[i] \in Range(kept)
                     <=> Len(sorted[i].loop) <= params.MAX_LOOP_LENGTH
           /\ Range(kept) \subseteq Range(sorted)
           /\ \A i, j \in 1 .. Len(kept) :
                 i < j => PositionIn(sorted, kept[i]) < PositionIn(sorted, kept[j])
           /\ \A i \in 1 .. Len(sorted) :
                 Len(sorted[i].loop) = params.MAX_LOOP_LENGTH => sorted[i] \in Range(kept)
           /\ "count_pruner" \in Stages =>
                 Range(retained_loops) \subseteq Range(kept)

C18_Witness ==
    /\ "count_pruner" \in Stages
    /\ \E i \in 1 .. Len(sorted_signed_loops) :
          /\ Len(sorted_signed_loops[i].loop) > params.MAX_LOOP_LENGTH
          /\ sorted_signed_loops[i] \notin Range(retained_loops_meeting_max_loop_criretia)
    /\ \E j \in 1 .. Len(sorted_signed_loops) :
          /\ Len(sorted_signed_loops[j].loop) = params.MAX_LOOP_LENGTH
          /\ sorted_signed_loops[j] \in Range(retained_loops_meeting_max_loop_criretia)
    /\ Len(retained_loops_meeting_max_loop_criretia) >= 2
    /\ Len(retained_loops_meeting_max_loop_criretia) < Len(sorted_signed_loops)

\* the i-th measurement is flagged at the pixel: it breaches there in every
\* loop it is part of
Flagged(i, px) == ifgs_breach_count[px][i] = num_occurences_each_ifg[i]

Single == <<"single", 0>>

Workers == {q \in Procs : World(q) = "mpi"}

\* the loops, as the test compares them: weights and edge sets, in order
LoopsCompared(loops) ==
    [l \in 1 .. Len(loops) |-> [weight |-> loops[l].weight, edges |-> LoopEdges(loops[l])]]

BothRunsEnded == \A q \in Procs : pc[q] = "returned"

StagesOf(q) == {ran[q][i] : i \in 1 .. Len(ran[q])}

\* the process of rank 0 of the run of q
Root(q) == <<World(q), 0>>

\* the stages that run under run_once
RunOnceStages == {"finder", "count_pruner", "orphan_rule", "threshold_rule"}

\* C15 (as stated): the loop finder and sorter, the length filter and the
\* count pruner are each executed by the worker of rank 0 only; no other
\* worker computes any of them.
C15_SingleWriter ==
    \A q \in Workers :
        Rank(q) # 0 =>
            StagesOf(q) \cap {"finder", "length_filter", "count_pruner"} = {}

\* C15 (amended): the loop finder and sorter and the count pruner (and the
\* two rules of the measurement pruner) are executed by the worker of rank 0
\* only, once per iteration, and every other worker goes on with the value
\* rank 0 computed; the length filter is computed by every worker itself,
\* from the sorted loops of rank 0, and gives every worker the same list.
C15_SingleWriterButLengthFilter ==
    \A q \in Workers :
        /\ Rank(q) # 0 => StagesOf(q) \cap RunOnceStages = {}
        /\ \A i, j \in 1 .. Len(ran[q]) : i # j => ran[q][i] # ran[q][j]
        /\ pc[q] \in {"wrap_count", "wrap_orphans", "wrap_sum", "wrap_reduce",
                      "wrap_save", "wrap_threshold"}
               => "length_filter" \in StagesOf(q)
        /\ (iteration[q] = iteration[Root(q)] /\ pc[q] # "wrap_sort") =>
               sorted_signed_loops[q] = sorted_signed_loops[Root(q)]
        /\ (iteration[q] = iteration[Root(q)]
            /\ {pc[q], pc[Root(q)]} \cap {"wrap_sort", "wrap_length"} = {}) =>
               retained_loops_meeting_max_loop_criretia[q]
                   = retained_loops_meeting_max_loop_criretia[Root(q)]
        /\ (iteration[q] = iteration[Root(q)]
            /\ pc[q] \in {"wrap_orphans", "wrap_sum", "wrap_reduce", "wrap_save",
                          "wrap_threshold"}) =>
               retained_loops[q] = retained_loops[Root(q)]

C15_Witness ==
    \E q \in Workers :
        /\ Rank(q) # 0
        /\ iteration[q] >= 2
        /\ pc[q] = "wrap_save"
        /\ "length_filter" \in StagesOf(q)
        /\ "count_pruner" \in StagesOf(Root(q))
        /\ retained_loops[q] = retained_loops[Root(q)]
        /\ Len(retained_loops_meeting_max_loop_criretia[q]) >= 2
        /\ Len(sorted_signed_loops[q]) > Len(retained_loops_meeting_max_loop_criretia[q])

\* C16 (as stated): no worker has started the loop finder of an iteration
\* while another worker of the run is still in an earlier iteration.
C16_BarrierEachIteration ==
    \A q, o \in Workers :
        iteration[q] > iteration[o] => "finder" \notin StagesOf(q)

\* C16 (amended): the barrier is passed once, after the last iteration of a
\* run that converges: a process arrives at it only when its list is stable,
\* and returns its result only when every process of the run has arrived.
\* Between iterations the workers are held together by the broadcasts of
\* run_once and the reduction of the closure sum only: two workers are never
\* more than one iteration apart, workers in the same iteration work on the
\* same measurement list, and a worker that is one iteration ahead works on
\* the candidate list the other is about to take over.
C16_BarrierAtEnd ==
    /\ \A q \in comm.barrier :
          /\ pc[q] \in {"barrier_wait", "returned"}
          /\ rets[q] # None
          /\ Len(ifg_files[q]) = Len(new_ifg_files[q])
    /\ \A q \in Procs :
          (pc[q] = "returned" /\ result[q] # None) => Group(q) \subseteq comm.barrier
    /\ \A q, o \in Workers :
          /\ iteration[q] <= iteration[o] + 1
          /\ iteration[q] = iteration[o] => Range(ifg_files[q]) = Range(ifg_files[o])
          /\ (iteration[q] = iteration[o] + 1 /\ pc[o] = "compare")
                 => Range(ifg_files[q]) = Range(new_ifg_files[o])

C16_Witness ==
    /\ \E q, o \in Workers :
          /\ iteration[q] = 2 /\ iteration[o] = 1
          /\ "finder" \in StagesOf(q)
          /\ pc[o] = "compare"
          /\ Len(ifg_files[q]) < Len(ifg_files[o])
    /\ comm.barrier = {}

\* C20: when a run converges, the saved closure, breach-count and occurrence
\* arrays and the saved loop list are those the last iteration computed,
\* the two arrays the run returns among them, and only the process of rank 0
\* has written them.
C20_PersistedFinal ==
    /\ \A w \in Worlds : WrittenBy(w) \subseteq {0}
    /\ \A q \in Procs :
          (pc[q] = "returned" /\ result[q] # None) =>
              LET sv == saved[World(q)]
              IN /\ sv # Unbound
                 /\ sv.closure = closure[q]
                 /\ sv.ifgs_breach_count = ifgs_breach_count[q]
                 /\ sv.num_occurences_each_ifg = num_occurences_each_ifg[q]
                 /\ sv.loops = retained_loops[q]
                 /\ sv.ifgs_breach_count = result[q].ifgs_breach_count
                 /\ sv.num_occurences_each_ifg = result[q].num_occurences_each_ifg
                 /\ sv.closure = rets[q].closure
                 /\ sv.loops = rets[q].retained_loops
                 /\ sv.written_by = {0}

C20_Witness ==
    \E q \in Workers :
        /\ Rank(q) # 0
        /\ pc[q] = "returned"
        /\ result[q] # None
        /\ iteration[q] >= 2
        /\ saved[World(q)].written_by = {0}
        /\ saved[World(q)].ifgs_breach_count = result[q].ifgs_breach_count
        /\ plotted[World(q)] >= 2

\* the number of records of a log that were written by one log.info call
InfoCount(lg, text) == Cardinality({i \in 1 .. Len(lg) : lg[i].text = text})

\* C21: when a call of wrap_closure_check returns None for want of loops, the
\* log holds, for this call, the number of loops that were left by the
\* MAX_LOOP_LENGTH criteria and, when the count pruner was reached, the
\* number left by the MAX_LOOPS_IN_IFG criteria.
C21_ReportsOnAbort ==
    (pc = "returned_from_wrap" /\ rets = None) =>
        /\ InfoCount(log, InfoMaxLoopLength(params, <<>>).text) = iteration
        /\ log[Len(log)] \in
               {InfoMaxLoopLength(params, retained_loops_meeting_max_loop_criretia),
                InfoMaxLoopsInIfg(params, retained_loops)}
        /\ "count_pruner" \in Stages =>
               /\ InfoCount(log, InfoMaxLoopsInIfg(params, <<>>).text) = iteration
               /\ log[Len(log)] = InfoMaxLoopsInIfg(params, retained_loops)

\* a list without a repeated member
NoRepeat(files) == Cardinality(Range(files)) = Len(files)

\* C22: the orphan rule and the threshold rule only remove measurements, so
\* the candidate list of an iteration is a part of the list the iteration
\* started from; a candidate of the same size is the same list, which is
\* what a CONVERGED run ends with, and a candidate that differs is smaller,
\* so that the list shrinks with every further iteration.
C22_OnlyRemoves ==
    /\ "orphan_rule" \in Stages =>
           Range(ifgs_with_loops) \subseteq Range(ifg_files) /\ NoRepeat(ifgs_with_loops)
    /\ "threshold_rule" \in Stages =>
           /\ Range(selected_ifg_files) \subseteq Range(ifgs_with_loops)
           /\ NoRepeat(selected_ifg_files)
    /\ pc = "compare" =>
           /\ Range(new_ifg_files) \subseteq Range(ifg_files)
           /\ Len(new_ifg_files) = Len(ifg_files) => new_ifg_files = ifg_files
           /\ Len(new_ifg_files) # Len(ifg_files) => Len(new_ifg_files) < Len(ifg_files)
    /\ IterState = "CONVERGED" => new_ifg_files = ifg_files
    /\ Len(ifg_files) + iteration <= Len(interferogram_files) + 1

C22_Witness ==
    /\ pc = "returned"
    /\ IterState = "CONVERGED"
    /\ iteration >= 2
    /\ new_ifg_files = ifg_files
    /\ Len(ifg_files) >= 3
    /\ Len(ifg_files) < Len(interferogram_files)
    /\ Range(ifgs_with_loops) = Range(ifg_files)

LoopsWith(f) == {l \in 1 .. Len(retained_loops) : f \in LoopEdges(retained_loops[l])}

\* C24: a CONVERGED run returns arrays with one entry for each measurement
\* it returns, the i-th entry counting the loops (and the breaching loops)
\* of the i-th measurement of the returned list, which is sorted: the orphan
\* rule has removed nothing in the last iteration.
C24_ArraysInStep ==
    (pc = "returned" /\ result # None) =>
        LET files == result.ifg_files
            occ == result.num_occurences_each_ifg
            breach == result.ifgs_breach_count
        IN /\ Len(occ) = Len(files)
           /\ \A px \in Pixels : Len(breach[px]) = Len(files)
           /\ ifgs_with_loops = files
           /\ files = SortFiles(files)
           /\ \A i \in 1 .. Len(files) :
                 /\ occ[i] = Cardinality(LoopsWith(files[i]))
                 /\ \A px \in Pixels :
                       breach[px][i] =
                           Cardinality({l \in LoopsWith(files[i]) :
                               LoopBreaches(retained_loops[l], px, phase, params)})

C24_Witness ==
    /\ pc = "returned"
    /\ result # None
    /\ iteration >= 2
    /\ Len(result.ifg_files) >= 3
    /\ Len(result.ifg_files) < Len(interferogram_files)
    /\ \E i, j \in 1 .. Len(result.ifg_files) :
          result.num_occurences_each_ifg[i] # result.num_occurences_each_ifg[j]

\* the average breach fraction of the i-th returned measurement is above
\* AVG_IFG_ERR_THR
AverageAbove(i) ==
    BreachSum(result.ifgs_breach_count, i) * params.AVG_IFG_ERR_THR[2]
        > params.AVG_IFG_ERR_THR[1] * result.num_occurences_each_ifg[i] * nrows * ncols

\* C25: every measurement of a CONVERGED result lies on a retained loop of
\* the last iteration (its occurrence count is at least 1) and does not
\* both have an occurrence count above LOOPS_THR_IFG and an average breach
\* fraction above AVG_IFG_ERR_THR.
C25_Postcondition ==
    (pc = "returned" /\ result # None) =>
        \A i \in 1 .. Len(result.ifg_files) :
            /\ result.num_occurences_each_ifg[i] >= 1
            /\ \E l \in 1 .. Len(retained_loops) :
                   result.ifg_files[i] \in LoopEdges(retained_loops[l])
            /\ ~(/\ result.num_occurences_each_ifg[i] > params.LOOPS_THR_IFG
                 /\ AverageAbove(i))

C25_Witness ==
    /\ pc = "returned"
    /\ result # None
    /\ \E i \in 1 .. Len(result.ifg_files) :
          AverageAbove(i) /\ result.num_occurences_each_ifg[i] <= params.LOOPS_THR_IFG
    /\ \E j \in 1 .. Len(result.ifg_files) :
          ~AverageAbove(j) /\ result.num_occurences_each_ifg[j] > params.LOOPS_THR_IFG

\* the process cannot go on by itself: it waits for a broadcast of rank 0,
\* for the parts of the reduction, or at the barrier
Blocked(q) ==
    \/ pc[q] \in {"wrap_sort", "wrap_count", "wrap_orphans", "wrap_threshold"}
           /\ ~run_once_ready(q)
    \/ pc[q] = "wrap_reduce"
           /\ \E o \in Group(q) : \A m \in comm.parts : ~(m.proc = o /\ m.it = iteration[q])
    \/ pc[q] = "barrier_wait" /\ ~BarrierPassed(q)

\* the process has left the loop by "break"
Converged(q) == pc[q] \in {"barrier", "barrier_wait"} \/ (pc[q] = "returned" /\ result[q] # None)

\* the process has left the run by "return", with no result
Aborted(q) == pc[q] = "returned" /\ result[q] = None

\* C26: the processes of a run take the same way out of every iteration.
\* When one has aborted, none has arrived at the barrier and every other is
\* in the same call, before its return None, or about to start it; when one
\* has started a further iteration, every other that is behind goes on to
\* it too; when one has left the loop for the barrier, every other is in
\* the same iteration and leaves the loop as well.  As long as a process of
\* a run has not returned, one of them can take a step: nobody waits at the
\* barrier for a process that does not arrive.
C26_SameDecision ==
    /\ \A q \in Procs : \A o \in Group(q) :
          /\ Aborted(q) =>
                 /\ comm.barrier \cap Group(q) = {}
                 /\ iteration[o] <= iteration[q]
                 /\ ~Converged(o)
                 /\ pc[o] = "returned" => result[o] = None
                 /\ iteration[o] = iteration[q] =>
                        /\ pc[o] \in {"wrap_sort", "wrap_length", "wrap_count",
                                      "wrap_orphans", "returned_from_wrap", "returned"}
                        /\ pc[o] = "returned_from_wrap" => rets[o] = None
          /\ iteration[q] > iteration[o] =>
                 /\ ~Converged(o) /\ ~Aborted(o)
                 /\ pc[o] = "returned_from_wrap" => rets[o] # None
                 /\ pc[o] = "compare" => ~Stable(ifg_files[o], new_ifg_files[o])
          /\ Converged(q) =>
                 /\ iteration[o] = iteration[q]
                 /\ pc[o] \in {"wrap_reduce", "wrap_save", "wrap_threshold",
                               "returned_from_wrap", "compare", "barrier",
                               "barrier_wait", "returned"}
                 /\ pc[o] = "returned_from_wrap" => rets[o] # None
                 /\ pc[o] = "compare" => Stable(ifg_files[o], new_ifg_files[o])
                 /\ pc[o] = "returned" => result[o] # None
    /\ \A w \in Worlds :
          (\E q \in Procs : World(q) = w /\ pc[q] # "returned") =>
              \E q \in Procs : World(q) = w /\ pc[q] # "returned" /\ ~Blocked(q)

C26_Witness ==
    \E q, o \in Workers :
        /\ pc[q] = "barrier_wait"
        /\ Blocked(q)
        /\ pc[o] = "wrap_threshold"
        /\ ~Blocked(o)
        /\ iteration[q] >= 2
        /\ Len(ifg_files[q]) < Len(interferogram_files)

====
